---- MODULE Spec2Model ----
(***************************************************************************)
(* Model of src/utils.py: the record builder (_generate_records), the      *)
(* batch generators (train_generator / val_batch_generator), the lazily    *)
(* loaded feature extractor (_extract_features / _load_mobilenet) and the  *)
(* test-time writer (postprocess_output).                                  *)
(*                                                                         *)
(* Each of the four parts has its own specification (SpecBuild, SpecGen,   *)
(* SpecFeat, SpecPost); the variables of the other parts stay at rest.     *)
(***************************************************************************)
EXTENDS FiniteSets, Integers, Sequences, TLC

\* ---------------------------------------------------------------- bounds
MaxFiles == 3
MaxBatchSize == 2
MaxRecords == 3
MaxYields == 4
MaxRecoveries == 1
MaxThreads == 2
MaxCalls == 2
MaxPredictions == 21

\* the largest number of entries in the folder load_test_data lists: one
\* more than the 20 of line 388, so that len(files) // 20 is 0 and is 1
MaxListed == 21

\* dataset.shuffle(buffer_size=5)
SHUFFLE_BUFFER == 5

\* the batch size save_data_tfrecord passes to _generate_records
SAVE_BATCH_SIZE == 100

\* the 20 of `i % (len(files) // 20)` in load_test_data
LOAD_PROGRESS_STEPS == 20

\* the 20 of `i % (len(y) // 20)` in postprocess_output
PROGRESS_STEPS == 20

VARIABLES
    \* ---- _generate_records
    dir,          \* the image directory: name -> kind of entry
    batch_size,   \* parameter batch_size of _generate_records
    tfExists,     \* os.path.exists(tf_record_name)
    tfContent,    \* records held by the file tf_record_name
    tfBefore,     \* content of tf_record_name before the call
    writerOpen,   \* a TFRecordWriter is open on tf_record_name
    writerOpened, \* a TFRecordWriter was created by the call
    files,        \* local files (sorted glob result)
    nb_files,     \* local nb_files
    i,            \* number of loop iterations of `for i, fn in enumerate(files)` done
    X_buffer,     \* local X_buffer
    reads,        \* name -> number of imread calls made on it
    b_pc,         \* position in save_data_tfrecord / _generate_records
    google_drive_file_id, \* save_data_tfrecord was given a google_drive_file_id
    dataDir,      \* the directory data/ exists
    datasetDir,   \* the directory dataset/ exists
    \* ---- train_generator / val_batch_generator
    which,        \* "train" or "val": the generator function called
    exists,       \* os.path.exists of TRAIN_RECORDS_PATH and VAL_RECORDS_PATH
    nrec,         \* number of records in the generator's record file
    g_batch,      \* parameter batch_size of the generator
    g_pc,         \* position in the generator body
    sessionOpen,  \* the tf.Session of the with statement is open
    dataset,      \* local dataset: constructed or not
    its,          \* the iterators made over dataset, in order of creation
    next_batch,   \* local next_batch: index in its of the iterator it reads
    yielded,      \* number of batches yielded so far
    lastYield,    \* the value of the last yield
    lastIdx,      \* position of the last yielded batch in its iterator's unshuffled order
    faults,       \* number of reads that raised during the last request
    \* ---- _extract_features / _load_mobilenet
    nthreads,                 \* number of threads calling _extract_features
    feature_extraction_model, \* the global: None or the instance of a load
    mobilenet_activations,    \* the global: None or the instance of a load
    loads,        \* number of runs of _load_mobilenet started
    sawNone,      \* number of tests of line 208 that found None
    f_pc,         \* thread -> position in _extract_features
    calls,        \* thread -> number of calls of _extract_features returned
    myLoad,       \* thread -> the run of _load_mobilenet it is in or made last
    usedModel,    \* thread -> the instance whose graph it entered last
    usedActs,     \* thread -> the activation model it predicted with last
    graphSet,     \* the MobileNet instances whose attribute graph is set
    baseIn,       \* thread -> the global model line 242 read for .input
    baseOut,      \* thread -> the global model line 242 read for .layers[-3].output
    \* ---- postprocess_output
    y,            \* the caller's array y (the parameter is the same object)
    y0,           \* the caller's array y before the call
    X_lab_arg,    \* the caller's array X_lab
    X0,           \* the caller's array X_lab before the call
    X_lab,        \* the local X_lab after line 424
    resultsDir,   \* the directory results/ exists
    pngs,         \* number k -> content of results/img_k.png
    p_i,          \* loop variable i
    p_pc,         \* position in postprocess_output
    \* ---- load_test_data
    nlisted,      \* number of entries os.listdir(image_folder_path) returns
    top_index,    \* parameter top_index
    t_bad,        \* place in the listing of an entry load_img cannot read, 0 if none
    t_len,        \* len(files) after files = files[:top_index]
    t_i,          \* loop variable i
    t_X           \* len(X): the images loaded so far

bvars == <<dir, batch_size, tfExists, tfContent, tfBefore, writerOpen,
           writerOpened, files, nb_files, i, X_buffer, reads, b_pc,
           google_drive_file_id, dataDir, datasetDir>>

gvars == <<which, exists, nrec, g_batch, g_pc, sessionOpen, dataset, its,
           next_batch, yielded, lastYield, lastIdx, faults>>

\* the globals of the feature extractor, and what counts its loads
fglobals == <<feature_extraction_model, mobilenet_activations, graphSet, loads, sawNone>>

\* the threads calling _extract_features
fthreads == <<nthreads, f_pc, calls, myLoad, usedModel, usedActs, baseIn, baseOut>>

fvars == <<fglobals, fthreads>>

pvars == <<y, y0, X_lab_arg, X0, X_lab, resultsDir, pngs, p_i, p_pc>>

\* load_test_data
tvars == <<nlisted, top_index, t_bad, t_len, t_i, t_X>>

vars == <<bvars, gvars, fvars, pvars, tvars>>

\* ------------------------------------------------------------- helpers
Names == 1..MaxFiles

\* kinds of directory entry: no such file, a .jpg that imread/resize accept,
\* a .jpg on which imread or resize raises, a file that is not *.jpg
Kinds == {"absent", "jpg", "badjpg", "other"}

RECURSIVE Insert(_, _)
Insert(x, s) ==
    IF s = <<>> THEN <<x>>
    ELSE IF x <= Head(s) THEN <<x>> \o s
    ELSE <<Head(s)>> \o Insert(x, Tail(s))

\* sorted(files)
RECURSIVE sorted(_)
sorted(s) == IF s = <<>> THEN <<>> ELSE Insert(Head(s), sorted(Tail(s)))

\* glob.glob(images_path + "/*.jpg"): the .jpg entries, in an arbitrary order
GlobJpg(d) ==
    LET J == {n \in Names : d[n] \in {"jpg", "badjpg"}}
    IN  {s \in [1..Cardinality(J) -> J] : \A a, b \in 1..Cardinality(J) : a # b => s[a] # s[b]}

\* imread + resize succeed on fn
Readable(fn) == dir[fn] = "jpg"

\* _process_batch: one luminance plane, one embedding and one chrominance
\* plane per image of the batch (each stands for the data derived from image x)
ProcessBatch(X) ==
    [X_batch  |-> [k \in 1..Len(X) |-> <<"l", X[k]>>],
     features |-> [k \in 1..Len(X) |-> <<"embed", X[k]>>],
     Y_batch  |-> [k \in 1..Len(X) |-> <<"ab", X[k]>>]]

Min(a, b) == IF a <= b THEN a ELSE b

\* _serialize_batch: one Example per element of zip(X_batch, features, Y_batch),
\* written in order; the result is the content of the file after the writes
SerializeBatch(X, content) ==
    LET p == ProcessBatch(X)
        n == Min(Len(p.X_batch), Min(Len(p.features), Len(p.Y_batch)))
    IN  content \o [j \in 1..n |->
                      [image_l        |-> p.X_batch[j],
                       image_ab       |-> p.Y_batch[j],
                       image_features |-> p.features[j]]]

\* None, for the global feature_extraction_model (instances are 1, 2, ...)
None == 0

\* None, for the global mobilenet_activations (instances are triples: the
\* run of _load_mobilenet that made it, the MobileNet its input is taken
\* from, the MobileNet its output is taken from)
NoModel == <<>>

Threads == 1..MaxThreads

\* the variables of the feature extractor, at rest
FeatRest ==
    /\ nthreads = 0
    /\ feature_extraction_model = None
    /\ mobilenet_activations = NoModel
    /\ loads = 0
    /\ sawNone = 0
    /\ f_pc = [t \in Threads |-> "rest"]
    /\ calls = [t \in Threads |-> 0]
    /\ myLoad = [t \in Threads |-> 0]
    /\ usedModel = [t \in Threads |-> None]
    /\ usedActs = [t \in Threads |-> NoModel]
    /\ graphSet = {}
    /\ baseIn = [t \in Threads |-> None]
    /\ baseOut = [t \in Threads |-> None]

\* the variables of load_test_data, at rest
TestRest ==
    /\ nlisted = 0
    /\ top_index = 0
    /\ t_bad = 0
    /\ t_len = 0
    /\ t_i = 0
    /\ t_X = 0

\* the variables of postprocess_output, at rest
PostRest ==
    /\ y = <<>>
    /\ y0 = <<>>
    /\ X_lab_arg = <<>>
    /\ X0 = <<>>
    /\ X_lab = <<>>
    /\ resultsDir = FALSE
    /\ pngs = <<>>
    /\ p_i = 0
    /\ p_pc = "rest"

\* the variables of the generators, at rest
GenRest ==
    /\ which = "train"
    /\ exists = [p \in {"TRAIN_RECORDS_PATH", "VAL_RECORDS_PATH"} |-> FALSE]
    /\ nrec = 0
    /\ g_batch = 1
    /\ g_pc = "rest"
    /\ sessionOpen = FALSE
    /\ dataset = FALSE
    /\ its = <<>>
    /\ next_batch = 0
    /\ yielded = 0
    /\ lastYield = <<>>
    /\ lastIdx = 0
    /\ faults = 0

BuildRest ==
    /\ dir = [n \in Names |-> "absent"]
    /\ batch_size = 1
    /\ tfExists = FALSE
    /\ tfContent = <<>>
    /\ tfBefore = <<>>
    /\ writerOpen = FALSE
    /\ writerOpened = FALSE
    /\ files = <<>>
    /\ nb_files = 0
    /\ i = 0
    /\ X_buffer = <<>>
    /\ reads = [n \in Names |-> 0]
    /\ b_pc = "rest"
    /\ google_drive_file_id = FALSE
    /\ dataDir = FALSE
    /\ datasetDir = FALSE

\* ----------------------------- save_data_tfrecord / _generate_records
\* a file left by an earlier run
OldContent == <<[image_l |-> <<"l", 0>>, image_ab |-> <<"ab", 0>>,
                 image_features |-> <<"embed", 0>>]>>

\* what _download_file_from_google_drive writes to its destination
DownloadedContent == <<[image_l |-> <<"download", 0>>, image_ab |-> <<"download", 0>>,
                        image_features |-> <<"download", 0>>]>>

\* the call is either save_data_tfrecord(tfrecord_path, dataset_url,
\* google_drive_file_id) or _generate_records(images_path, tf_record_name,
\* batch_size); dir is the image directory (for save_data_tfrecord, what
\* the archive of dataset_url extracts to); the feature extractor is not
\* loaded yet
BuildInit ==
    /\ dir \in [Names -> Kinds]
    /\ tfExists \in BOOLEAN
    /\ tfContent = IF tfExists THEN OldContent ELSE <<>>
    /\ tfBefore = tfContent
    /\ \/ /\ b_pc = "generate"
          /\ batch_size \in 1..MaxBatchSize
          /\ google_drive_file_id = FALSE
          /\ TestRest
       \/ /\ b_pc = "save"
          /\ batch_size = 0
          /\ google_drive_file_id \in BOOLEAN
          /\ TestRest
       \/ /\ b_pc = "load_test"
          /\ batch_size = 0
          /\ google_drive_file_id = FALSE
          /\ dir = [n \in Names |-> "absent"]
          /\ nlisted \in 0..MaxListed
          /\ top_index \in {0, 1, LOAD_PROGRESS_STEPS, MaxListed}
          /\ t_bad \in {k \in {0, 1, LOAD_PROGRESS_STEPS} : k <= nlisted}
          /\ t_len = 0
          /\ t_i = 0
          /\ t_X = 0
    /\ dataDir = FALSE
    /\ datasetDir = FALSE
    /\ writerOpen = FALSE
    /\ writerOpened = FALSE
    /\ files = <<>>
    /\ nb_files = 0
    /\ i = 0
    /\ X_buffer = <<>>
    /\ reads = [n \in Names |-> 0]
    /\ GenRest
    /\ FeatRest
    /\ PostRest

\* lines 51-55 and 60-83: save_data_tfrecord with a google_drive_file_id
\* makes data/ and writes the download to tfrecord_path, open(.., "wb"),
\* whether the file exists or not; _generate_records is not called
SaveDataDownload ==
    /\ b_pc = "save"
    /\ google_drive_file_id
    /\ dataDir' = TRUE
    /\ tfExists' = TRUE
    /\ tfContent' = DownloadedContent
    /\ b_pc' = "downloaded"
    /\ UNCHANGED <<dir, batch_size, tfBefore, writerOpen, writerOpened, files,
                   nb_files, i, X_buffer, reads, google_drive_file_id, datasetDir>>
    /\ UNCHANGED <<gvars, fvars, pvars, tvars>>

\* lines 51-53, 56-58 and 93-108: save_data_tfrecord without a
\* google_drive_file_id makes data/ and dataset/, fetches and extracts the
\* archive and calls _generate_records(image_path, tfrecord_path, 100)
SaveDataGenerate ==
    /\ b_pc = "save"
    /\ ~google_drive_file_id
    /\ dataDir' = TRUE
    /\ datasetDir' = TRUE
    /\ batch_size' = SAVE_BATCH_SIZE
    /\ b_pc' = "generate"
    /\ UNCHANGED <<dir, tfExists, tfContent, tfBefore, writerOpen, writerOpened,
                   files, nb_files, i, X_buffer, reads, google_drive_file_id>>
    /\ UNCHANGED <<gvars, fvars, pvars, tvars>>

\* lines 119-121: the output exists, exit(0)
GenerateRecordsRefuse ==
    /\ b_pc = "generate"
    /\ tfExists
    /\ b_pc' = "exited"
    /\ UNCHANGED <<dir, batch_size, tfExists, tfContent, tfBefore, writerOpen,
                   writerOpened, files, nb_files, i, X_buffer, reads,
                   google_drive_file_id, dataDir, datasetDir>>
    /\ UNCHANGED <<gvars, fvars, pvars, tvars>>

\* the same entry without the existence test of line 119
GenerateRecordsOpen_NoExistsTest ==
    /\ b_pc = "generate"
    /\ \E g \in GlobJpg(dir) :
         /\ files' = sorted(g)
         /\ nb_files' = Len(g)
    /\ tfExists' = TRUE
    /\ tfContent' = <<>>
    /\ writerOpen' = TRUE
    /\ writerOpened' = TRUE
    /\ X_buffer' = <<>>
    /\ i' = 0
    /\ b_pc' = "loop"
    /\ UNCHANGED <<dir, batch_size, tfBefore, reads, google_drive_file_id,
                   dataDir, datasetDir>>
    /\ UNCHANGED <<gvars, fvars, pvars, tvars>>

\* lines 119-133: the output does not exist; glob, sort, create the writer
GenerateRecordsOpen ==
    /\ b_pc = "generate"
    /\ ~tfExists
    /\ \E g \in GlobJpg(dir) :
         /\ files' = sorted(g)
         /\ nb_files' = Len(g)
    /\ tfExists' = TRUE
    /\ tfContent' = <<>>
    /\ writerOpen' = TRUE
    /\ writerOpened' = TRUE
    /\ X_buffer' = <<>>
    /\ i' = 0
    /\ b_pc' = "loop"
    /\ UNCHANGED <<dir, batch_size, tfBefore, reads, google_drive_file_id,
                   dataDir, datasetDir>>
    /\ UNCHANGED <<gvars, fvars, pvars, tvars>>

\* lines 206-248 run by the builder's own thread inside _process_batch
\* (line 199): _extract_features loads MobileNet when the global is None,
\* which assigns both globals and sets the graph of the new model
ExtractFeaturesInBuilder ==
    /\ IF feature_extraction_model = None
       THEN /\ sawNone' = sawNone + 1
            /\ loads' = loads + 1
            /\ feature_extraction_model' = loads + 1
            /\ graphSet' = graphSet \cup {loads + 1}
            /\ mobilenet_activations' = <<loads + 1, loads + 1, loads + 1>>
       ELSE UNCHANGED fglobals
    /\ UNCHANGED fthreads

\* the loop body with the except branch falling through to the append
LoopIteration_NoSkip ==
    /\ b_pc = "loop"
    /\ i < Len(files)
    /\ LET fn  == files[i + 1]
           buf == Append(X_buffer, fn)
       IN  /\ reads' = [reads EXCEPT ![fn] = @ + 1]
           /\ i' = i + 1
           /\ IF Len(buf) >= batch_size
              THEN /\ tfContent' = SerializeBatch(buf, tfContent)
                   /\ X_buffer' = <<>>
                   /\ ExtractFeaturesInBuilder
              ELSE /\ X_buffer' = buf
                   /\ UNCHANGED <<tfContent, fvars>>
    /\ UNCHANGED <<dir, batch_size, tfExists, tfBefore, writerOpen, writerOpened,
                   files, nb_files, b_pc, google_drive_file_id, dataDir, datasetDir>>
    /\ UNCHANGED <<gvars, pvars, tvars>>

\* lines 134-150: one iteration of the loop over files; a full buffer is
\* serialized, which runs _process_batch and so _extract_features
LoopIteration ==
    /\ b_pc = "loop"
    /\ i < Len(files)
    /\ LET fn  == files[i + 1]
           buf == Append(X_buffer, fn)
       IN  /\ reads' = [reads EXCEPT ![fn] = @ + 1]
           /\ i' = i + 1
           /\ IF ~Readable(fn)
              THEN UNCHANGED <<X_buffer, tfContent, fvars>>   \* except: continue
              ELSE IF Len(buf) >= batch_size
                   THEN /\ tfContent' = SerializeBatch(buf, tfContent)
                        /\ X_buffer' = <<>>
                        /\ ExtractFeaturesInBuilder
                   ELSE /\ X_buffer' = buf
                        /\ UNCHANGED <<tfContent, fvars>>
    /\ UNCHANGED <<dir, batch_size, tfExists, tfBefore, writerOpen, writerOpened,
                   files, nb_files, b_pc, google_drive_file_id, dataDir, datasetDir>>
    /\ UNCHANGED <<gvars, pvars, tvars>>

\* the end of the function without the flush of lines 152-156
GenerateRecordsFinish_NoFlush ==
    /\ b_pc = "loop"
    /\ i = Len(files)
    /\ X_buffer' = <<>>
    /\ writerOpen' = FALSE
    /\ b_pc' = "done"
    /\ UNCHANGED <<dir, batch_size, tfExists, tfContent, tfBefore, writerOpened,
                   files, nb_files, i, reads, google_drive_file_id, dataDir, datasetDir>>
    /\ UNCHANGED <<gvars, fvars, pvars, tvars>>

\* lines 152-161: serialize what is left in the buffer (which runs
\* _extract_features) and close the writer
GenerateRecordsFinish ==
    /\ b_pc = "loop"
    /\ i = Len(files)
    /\ IF Len(X_buffer) # 0
       THEN /\ tfContent' = SerializeBatch(X_buffer, tfContent)
            /\ ExtractFeaturesInBuilder
       ELSE UNCHANGED <<tfContent, fvars>>
    /\ X_buffer' = <<>>
    /\ writerOpen' = FALSE
    /\ b_pc' = "done"
    /\ UNCHANGED <<dir, batch_size, tfExists, tfBefore, writerOpened,
                   files, nb_files, i, reads, google_drive_file_id, dataDir, datasetDir>>
    /\ UNCHANGED <<gvars, pvars, tvars>>

\* load_test_data, lines 378-382: _download_and_save_zip makes dataset/ and
\* extracts the archive, the folder is listed, files = files[:top_index]
LoadTestDataList ==
    /\ b_pc = "load_test"
    /\ datasetDir' = TRUE
    /\ t_len' = Min(nlisted, top_index)
    /\ t_i' = 0
    /\ t_X' = 0
    /\ b_pc' = "load_loop"
    /\ UNCHANGED <<dir, batch_size, tfExists, tfContent, tfBefore, writerOpen,
                   writerOpened, files, nb_files, i, X_buffer, reads,
                   google_drive_file_id, dataDir, nlisted, top_index, t_bad>>
    /\ UNCHANGED <<gvars, fvars, pvars>>

\* load_test_data, lines 383-389, one iteration: load_img raises on an entry
\* it cannot read; otherwise the image is appended to X and line 388 takes
\* i % (len(files) // 20), a ZeroDivisionError when len(files) < 20
LoadTestDataIteration ==
    /\ b_pc = "load_loop"
    /\ t_i < t_len
    /\ IF t_i + 1 = t_bad
          THEN /\ b_pc' = "load_raised"
               /\ UNCHANGED <<t_i, t_X>>
          ELSE /\ t_X' = t_X + 1
               /\ IF t_len \div LOAD_PROGRESS_STEPS = 0
                     THEN /\ b_pc' = "load_raised"
                          /\ UNCHANGED t_i
                     ELSE /\ b_pc' = "load_loop"
                          /\ t_i' = t_i + 1
    /\ UNCHANGED <<dir, batch_size, tfExists, tfContent, tfBefore, writerOpen,
                   writerOpened, files, nb_files, i, X_buffer, reads,
                   google_drive_file_id, dataDir, datasetDir,
                   nlisted, top_index, t_bad, t_len>>
    /\ UNCHANGED <<gvars, fvars, pvars>>

\* load_test_data, lines 391-393: the loop is over, X is returned
LoadTestDataReturn ==
    /\ b_pc = "load_loop"
    /\ t_i = t_len
    /\ b_pc' = "loaded"
    /\ UNCHANGED <<dir, batch_size, tfExists, tfContent, tfBefore, writerOpen,
                   writerOpened, files, nb_files, i, X_buffer, reads,
                   google_drive_file_id, dataDir, datasetDir>>
    /\ UNCHANGED <<gvars, fvars, pvars, tvars>>

NextBuild ==
    \/ LoadTestDataList
    \/ LoadTestDataIteration
    \/ LoadTestDataReturn
    \/ SaveDataDownload
    \/ SaveDataGenerate
    \/ GenerateRecordsRefuse
    \/ GenerateRecordsOpen
    \/ LoopIteration
    \/ GenerateRecordsFinish

SpecBuild == BuildInit /\ [][NextBuild]_vars

\* ------------------------------------------------------ claims C1..C3
JpgNames == {n \in Names : dir[n] \in {"jpg", "badjpg"}}
ReadableNames == {n \in Names : dir[n] = "jpg"}

\* the image a record was made from
ImageOf(r) == r.image_l[2]

\* the records are one per image of S, in increasing (sorted) name order
RecordsAre(S) ==
    /\ Len(tfContent) = Cardinality(S)
    /\ {ImageOf(tfContent[k]) : k \in 1..Len(tfContent)} = S
    /\ \A k \in 1..Len(tfContent) :
         /\ tfContent[k].image_l = <<"l", ImageOf(tfContent[k])>>
         /\ tfContent[k].image_ab = <<"ab", ImageOf(tfContent[k])>>
         /\ tfContent[k].image_features = <<"embed", ImageOf(tfContent[k])>>
    /\ \A a, b \in 1..Len(tfContent) :
         a < b => ImageOf(tfContent[a]) < ImageOf(tfContent[b])

\* C1: when every .jpg of the directory is readable, a finished run has
\* written exactly one record per image, the k-th record being that of the
\* k-th path in sorted order, for every batch size.
C1_AllRecordsInSortedOrder ==
    (b_pc = "done" /\ JpgNames = ReadableNames) => RecordsAre(JpgNames)

\* a finished run over 3 readable images with batch size 2 (partial last batch)
C1_Witness ==
    /\ b_pc = "done"
    /\ JpgNames = ReadableNames
    /\ Cardinality(JpgNames) = 3
    /\ batch_size = 2
    /\ Len(tfContent) = 3

\* C2: unreadable images are skipped, each read once and never retried; the
\* run never stops inside the loop because of them and a finished run holds
\* exactly the records of the readable images, in sorted order.
C2_SkipsUnreadable ==
    /\ b_pc = "loop" => (i < Len(files) => ENABLED LoopIteration)
    /\ \A n \in Names : reads[n] <= 1
    /\ b_pc = "done" =>
         /\ \A n \in JpgNames : reads[n] = 1
         /\ RecordsAre(ReadableNames)

\* a finished run in which the unreadable image is the middle one
C2_Witness ==
    /\ b_pc = "done"
    /\ dir[1] = "jpg" /\ dir[2] = "badjpg" /\ dir[3] = "jpg"
    /\ batch_size = 2
    /\ Len(tfContent) = 2

\* C3: when the output exists a call of _generate_records (direct, or made
\* by save_data_tfrecord) exits before a writer is created, before the
\* directory is enumerated or read, and the file keeps its content.
C3_RefusesExisting ==
    (tfBefore # <<>> /\ b_pc \notin {"rest", "save", "downloaded", "load_test",
                                     "load_loop", "loaded", "load_raised"}) =>
        /\ b_pc \in {"generate", "exited"}
        /\ tfContent = tfBefore
        /\ ~writerOpened
        /\ files = <<>>
        /\ \A n \in Names : reads[n] = 0

C3_Witness ==
    /\ b_pc = "exited"
    /\ tfBefore = OldContent
    /\ JpgNames # {}

\* --------------------------------- train_generator / val_batch_generator
\* TRAIN_RECORDS_PATH for train_generator, VAL_RECORDS_PATH for val_batch_generator
PathOf(w) == IF w = "train" THEN "TRAIN_RECORDS_PATH" ELSE "VAL_RECORDS_PATH"

\* parse_record: the three arrays of the r-th record of the file
ParseRecord(r) == [l |-> <<"l", r>>, ab |-> <<"ab", r>>, embed |-> <<"embed", r>>]

\* a single pass over the file from record pos, without dataset.repeat()
RECURSIVE TakeRecords_NoRepeat(_, _, _)
TakeRecords_NoRepeat(pos, k, n) ==
    IF k = 0 \/ pos > n THEN <<>>
    ELSE <<pos>> \o TakeRecords_NoRepeat(pos + 1, k - 1, n)

\* dataset.repeat(): the next k records of a file of n records read from
\* record pos on, starting over at the first record after the last
RECURSIVE TakeRecords(_, _, _)
TakeRecords(pos, k, n) ==
    IF k = 0 THEN <<>>
    ELSE <<pos>> \o TakeRecords(IF pos = n THEN 1 ELSE pos + 1, k - 1, n)

\* the batches cut from a single pass, the pass repeated afterwards
\* (dataset.batch(batch_size) applied before dataset.repeat())
PullBatch_BatchBeforeRepeat(it) ==
    LET recs == TakeRecords_NoRepeat(it.pos, g_batch, nrec)
        last == recs[Len(recs)]
    IN  [it EXCEPT !.pos = IF last = nrec THEN 1 ELSE last + 1,
                   !.pulled = @ + 1,
                   !.buf = Append(@, [idx |-> it.pulled, recs |-> recs])]

\* make_initializable_iterator + initializer: nothing read, nothing buffered
NewIterator == [pos |-> 1, pulled |-> 0, buf |-> <<>>, emitted |-> 0]

\* dataset.batch(batch_size): pull the next batch from the repeated file
PullBatch(it) ==
    LET recs == TakeRecords(it.pos, g_batch, nrec)
        last == recs[Len(recs)]
    IN  [it EXCEPT !.pos = IF last = nrec THEN 1 ELSE last + 1,
                   !.pulled = @ + 1,
                   !.buf = Append(@, [idx |-> it.pulled, recs |-> recs])]

\* dataset.shuffle(buffer_size=5): the buffer is filled with batches
RECURSIVE FillBuffer(_)
FillBuffer(it) ==
    IF Len(it.buf) >= SHUFFLE_BUFFER THEN it ELSE FillBuffer(PullBatch(it))

RemoveAt(s, k) == [j \in 1..(Len(s) - 1) |-> IF j < k THEN s[j] ELSE s[j + 1]]

\* sess.run(next_batch) on iterator it, the shuffle choosing buffer slot s:
\* the batch handed out and the iterator afterwards
RunNextBatch(it, s) ==
    LET f == FillBuffer(it)
    IN  [batch |-> f.buf[s],
         it    |-> [f EXCEPT !.buf = RemoveAt(@, s), !.emitted = @ + 1]]

\* the value yielded for a batch: ([l, features], ab)
YieldOf(b) ==
    [l        |-> [j \in 1..Len(b.recs) |-> ParseRecord(b.recs[j]).l],
     features |-> [j \in 1..Len(b.recs) |-> ParseRecord(b.recs[j]).embed],
     ab       |-> [j \in 1..Len(b.recs) |-> ParseRecord(b.recs[j]).ab]]

GenInit ==
    /\ which \in {"train", "val"}
    /\ exists \in [{"TRAIN_RECORDS_PATH", "VAL_RECORDS_PATH"} -> BOOLEAN]
    /\ nrec \in 0..MaxRecords
    /\ g_batch \in 1..MaxBatchSize
    /\ g_pc = "created"
    /\ sessionOpen = FALSE
    /\ dataset = FALSE
    /\ its = <<>>
    /\ next_batch = 0
    /\ yielded = 0
    /\ lastYield = <<>>
    /\ lastIdx = 0
    /\ faults = 0
    /\ BuildRest
    /\ FeatRest
    /\ PostRest
    /\ TestRest

\* lines 289-292 / 315-318: the record file is missing, exit(0)
GeneratorExit ==
    /\ g_pc = "created"
    /\ ~exists[PathOf(which)]
    /\ g_pc' = "exited"
    /\ UNCHANGED <<which, exists, nrec, g_batch, sessionOpen, dataset, its,
                   next_batch, yielded, lastYield, lastIdx, faults>>
    /\ UNCHANGED <<bvars, fvars, pvars, tvars>>

\* the entry of the generator without the test of line 289 / 315
GeneratorConstruct_NoExistsTest ==
    /\ g_pc = "created"
    /\ sessionOpen' = TRUE
    /\ dataset' = TRUE
    /\ its' = <<NewIterator>>
    /\ next_batch' = 1
    /\ g_pc' = "ready"
    /\ UNCHANGED <<which, exists, nrec, g_batch, yielded, lastYield, lastIdx, faults>>
    /\ UNCHANGED <<bvars, fvars, pvars, tvars>>

\* lines 294-295 / 320-321: open the session, _construct_dataset
GeneratorConstruct ==
    /\ g_pc = "created"
    /\ exists[PathOf(which)]
    /\ sessionOpen' = TRUE
    /\ dataset' = TRUE
    /\ its' = <<NewIterator>>
    /\ next_batch' = 1
    /\ g_pc' = "ready"
    /\ UNCHANGED <<which, exists, nrec, g_batch, yielded, lastYield, lastIdx, faults>>
    /\ UNCHANGED <<bvars, fvars, pvars, tvars>>

\* lines 299-300 / 325-326: the read succeeds and its batch is yielded
ReadAndYield ==
    /\ g_pc \in {"ready", "suspended"}
    /\ yielded < MaxYields
    /\ nrec > 0
    /\ \E s \in 1..SHUFFLE_BUFFER :
         LET r == RunNextBatch(its[next_batch], s)
         IN  /\ its' = [its EXCEPT ![next_batch] = r.it]
             /\ lastYield' = YieldOf(r.batch)
             /\ lastIdx' = r.batch.idx
    /\ yielded' = yielded + 1
    /\ faults' = 0
    /\ g_pc' = "suspended"
    /\ UNCHANGED <<which, exists, nrec, g_batch, sessionOpen, dataset, next_batch>>
    /\ UNCHANGED <<bvars, fvars, pvars, tvars>>

\* the except branch reading again through the tensor of the old iterator
ReadFaultRecover_OldTensor ==
    /\ g_pc \in {"ready", "suspended"}
    /\ yielded < MaxYields
    /\ Len(its) <= MaxRecoveries
    /\ nrec > 0
    /\ \E s \in 1..SHUFFLE_BUFFER :
         LET r == RunNextBatch(its[next_batch], s)
         IN  /\ its' = Append([its EXCEPT ![next_batch] = r.it], NewIterator)
             /\ lastYield' = YieldOf(r.batch)
             /\ lastIdx' = r.batch.idx
    /\ yielded' = yielded + 1
    /\ faults' = 1
    /\ g_pc' = "suspended"
    /\ UNCHANGED <<which, exists, nrec, g_batch, sessionOpen, dataset, next_batch>>
    /\ UNCHANGED <<bvars, fvars, pvars, tvars>>

\* lines 299-308 / 325-334: the read raises; a new iterator is made over the
\* same dataset, next_batch is rebound to it, its first read succeeds and
\* the batch is yielded
ReadFaultRecover ==
    /\ g_pc \in {"ready", "suspended"}
    /\ yielded < MaxYields
    /\ Len(its) <= MaxRecoveries
    /\ nrec > 0
    /\ next_batch' = Len(its) + 1
    /\ \E s \in 1..SHUFFLE_BUFFER :
         LET r == RunNextBatch(NewIterator, s)
         IN  /\ its' = Append(its, r.it)
             /\ lastYield' = YieldOf(r.batch)
             /\ lastIdx' = r.batch.idx
    /\ yielded' = yielded + 1
    /\ faults' = 1
    /\ g_pc' = "suspended"
    /\ UNCHANGED <<which, exists, nrec, g_batch, sessionOpen, dataset>>
    /\ UNCHANGED <<bvars, fvars, pvars, tvars>>

\* lines 299-307 / 325-333: the read raises, and so does the read of line
\* 307 / 333 on the new iterator: the exception leaves the generator (an empty
\* record file makes every read raise)
ReadFaultRaise ==
    /\ g_pc \in {"ready", "suspended"}
    /\ next_batch' = Len(its) + 1
    /\ its' = Append(its, NewIterator)
    /\ faults' = 2
    /\ sessionOpen' = FALSE
    /\ g_pc' = "raised"
    /\ UNCHANGED <<which, exists, nrec, g_batch, dataset, yielded, lastYield, lastIdx>>
    /\ UNCHANGED <<bvars, fvars, pvars, tvars>>

NextGen ==
    \/ GeneratorExit
    \/ GeneratorConstruct
    \/ ReadAndYield
    \/ ReadFaultRecover
    \/ ReadFaultRaise

SpecGen == GenInit /\ [][NextGen]_vars

\* ------------------------------------------------------ claims C4..C6
\* the value yielded for the batch at position idx of the unshuffled order:
\* g_batch consecutive records of the file, taken cyclically
CyclicYield(idx) ==
    LET rec(j) == ((idx * g_batch + j - 1) % nrec) + 1
    IN  [l        |-> [j \in 1..g_batch |-> <<"l", rec(j)>>],
         features |-> [j \in 1..g_batch |-> <<"embed", rec(j)>>],
         ab       |-> [j \in 1..g_batch |-> <<"ab", rec(j)>>]]

\* what a step of the generator that starts at a read may do
C4_StepOK ==
    g_pc \in {"ready", "suspended"} =>
      /\ faults' \in {0, 1, 2}
      /\ (g_pc' = "raised") <=> (faults' = 2)
      /\ faults' = 2 => /\ yielded' = yielded
                        /\ lastYield' = lastYield
      /\ faults' = 1 =>
           /\ g_pc' = "suspended"
           /\ yielded' = yielded + 1
           /\ Len(its') = Len(its) + 1
           /\ \A k \in 1..Len(its) : its'[k] = its[k]
           /\ next_batch' = Len(its')
           /\ its'[next_batch'].emitted = 1
           /\ its'[next_batch'].pulled = SHUFFLE_BUFFER
           /\ lastIdx' \in 0..(SHUFFLE_BUFFER - 1)
           /\ lastYield' = CyclicYield(lastIdx')
      /\ faults' = 0 =>
           /\ g_pc' = "suspended"
           /\ yielded' = yielded + 1
           /\ Len(its') = Len(its)
           /\ next_batch' = next_batch
           /\ next_batch = Len(its)
           /\ its'[next_batch].emitted = its[next_batch].emitted + 1

\* C4: in every step of the generator, a request whose read raises once builds a new iterator over the same
\* dataset, rebinds next_batch to it and yields one of the first batches of
\* the file, read from its start; a request whose read raises again on the
\* new iterator ends the generator with the exception and yields nothing;
\* a request without a fault reads the newest iterator and makes none.
C4_RecoversOnce == [][C4_StepOK]_vars

\* a batch was read, a read raised and was recovered, and the next request
\* read its batch from the new iterator
C4_Witness ==
    /\ g_pc = "suspended"
    /\ Len(its) = 2
    /\ its[1].emitted >= 1
    /\ its[2].emitted = 2
    /\ faults = 0
    /\ next_batch = 2

\* C5 as amended: the generator ends only by a read raising twice in a row;
\* every yield holds exactly g_batch luminance, embedding and chrominance
\* rows, which are g_batch consecutive records of the file taken cyclically
\* (the batch at position idx of the unshuffled order starts at record
\* (idx * g_batch) mod nrec, so position nrec / g_batch starts at the first
\* record again); the shuffle hands the batches out at most
\* SHUFFLE_BUFFER - 1 positions early.
C5_CyclicBatches ==
    /\ g_pc = "raised" => faults = 2
    /\ g_pc = "exited" => ~exists[PathOf(which)]
    /\ yielded > 0 =>
         /\ Len(lastYield.l) = g_batch
         /\ Len(lastYield.features) = g_batch
         /\ Len(lastYield.ab) = g_batch
         /\ lastYield = CyclicYield(lastIdx)
         /\ g_pc = "suspended" =>
              lastIdx <= (its[next_batch].emitted - 1) + (SHUFFLE_BUFFER - 1)

\* the batch size does not divide the file, the batch yielded straddles the
\* end of the file and it was handed out ahead of an earlier one
C5_Witness ==
    /\ g_pc = "suspended"
    /\ nrec = 3 /\ g_batch = 2
    /\ Len(its) = 1
    /\ yielded = 1
    /\ lastIdx = 1
    /\ lastYield.l = << <<"l", 3>>, <<"l", 1>> >>

\* C5 as stated: with no read fault and g_batch dividing nrec, the batch
\* yielded after nrec / g_batch batches starts at the first record of the file.
C5_CycledBackAfterNOverB ==
    (/\ g_pc = "suspended"
     /\ Len(its) = 1
     /\ nrec % g_batch = 0
     /\ yielded = (nrec \div g_batch) + 1)
    => lastYield.l[1] = <<"l", 1>>

\* C6: when the generator's record file is missing its first request exits:
\* no session is opened, no dataset or iterator is made, nothing is yielded.
C6_ExitsOnMissingFile ==
    (g_pc # "rest" /\ ~exists[PathOf(which)]) =>
        /\ g_pc \in {"created", "exited"}
        /\ g_pc = "created" => ENABLED GeneratorExit
        /\ ~sessionOpen
        /\ ~dataset
        /\ its = <<>>
        /\ yielded = 0
        /\ lastYield = <<>>
        /\ faults = 0

\* the validation generator exited although the training file exists
C6_Witness ==
    /\ g_pc = "exited"
    /\ which = "val"
    /\ exists["TRAIN_RECORDS_PATH"]
    /\ nrec > 0

\* ------------------------------------ _extract_features / _load_mobilenet
FeatInit ==
    /\ nthreads \in 1..MaxThreads
    /\ feature_extraction_model = None
    /\ mobilenet_activations = NoModel
    /\ loads = 0
    /\ sawNone = 0
    /\ f_pc = [t \in Threads |-> IF t <= nthreads THEN "idle" ELSE "rest"]
    /\ calls = [t \in Threads |-> 0]
    /\ myLoad = [t \in Threads |-> 0]
    /\ usedModel = [t \in Threads |-> None]
    /\ usedActs = [t \in Threads |-> NoModel]
    /\ graphSet = {}
    /\ baseIn = [t \in Threads |-> None]
    /\ baseOut = [t \in Threads |-> None]
    /\ BuildRest
    /\ GenRest
    /\ PostRest
    /\ TestRest

\* the entry of _extract_features calling _load_mobilenet unconditionally
TestLoaded_AlwaysLoad(t) ==
    /\ f_pc[t] = "idle"
    /\ calls[t] < MaxCalls
    /\ f_pc' = [f_pc EXCEPT ![t] = "load"]
    /\ sawNone' = IF feature_extraction_model = None THEN sawNone + 1 ELSE sawNone
    /\ UNCHANGED <<nthreads, feature_extraction_model, mobilenet_activations, loads,
                   calls, myLoad, usedModel, usedActs, graphSet, baseIn, baseOut>>
    /\ UNCHANGED <<bvars, gvars, pvars, tvars>>

\* lines 206-209: thread t calls _extract_features and tests the global
TestLoaded(t) ==
    /\ f_pc[t] = "idle"
    /\ calls[t] < MaxCalls
    /\ IF feature_extraction_model = None
       THEN /\ f_pc' = [f_pc EXCEPT ![t] = "load"]
            /\ sawNone' = sawNone + 1
       ELSE /\ f_pc' = [f_pc EXCEPT ![t] = "resize"]
            /\ UNCHANGED sawNone
    /\ UNCHANGED <<nthreads, feature_extraction_model, mobilenet_activations, loads,
                   calls, myLoad, usedModel, usedActs, graphSet, baseIn, baseOut>>
    /\ UNCHANGED <<bvars, gvars, pvars, tvars>>

\* the assignment of line 231 made only if the global is still None
LoadModel_TestAgain(t) ==
    /\ f_pc[t] = "load"
    /\ IF feature_extraction_model = None
       THEN /\ loads' = loads + 1
            /\ myLoad' = [myLoad EXCEPT ![t] = loads + 1]
            /\ feature_extraction_model' = loads + 1
            /\ f_pc' = [f_pc EXCEPT ![t] = "graph"]
       ELSE /\ f_pc' = [f_pc EXCEPT ![t] = "resize"]
            /\ UNCHANGED <<loads, myLoad, feature_extraction_model>>
    /\ UNCHANGED <<nthreads, mobilenet_activations, sawNone, calls, usedModel,
                   usedActs, graphSet, baseIn, baseOut>>
    /\ UNCHANGED <<bvars, gvars, pvars, tvars>>

\* lines 227-235: _load_mobilenet builds a MobileNet and assigns it to the
\* global; the new model has no attribute graph yet
LoadModel(t) ==
    /\ f_pc[t] = "load"
    /\ loads' = loads + 1
    /\ myLoad' = [myLoad EXCEPT ![t] = loads + 1]
    /\ feature_extraction_model' = loads + 1
    /\ f_pc' = [f_pc EXCEPT ![t] = "graph"]
    /\ UNCHANGED <<nthreads, mobilenet_activations, sawNone, calls, usedModel,
                   usedActs, graphSet, baseIn, baseOut>>
    /\ UNCHANGED <<bvars, gvars, pvars, tvars>>

\* lines 238-239: the attribute graph is set on the model the global names
\* now, which another thread may have assigned since
SetGraph(t) ==
    /\ f_pc[t] = "graph"
    /\ graphSet' = graphSet \cup {feature_extraction_model}
    /\ f_pc' = [f_pc EXCEPT ![t] = "activations"]
    /\ UNCHANGED <<nthreads, feature_extraction_model, mobilenet_activations, loads,
                   sawNone, calls, myLoad, usedModel, usedActs, baseIn, baseOut>>
    /\ UNCHANGED <<bvars, gvars, pvars, tvars>>

\* line 242, first argument of Model(...): the global is read for .input
ReadModelInput(t) ==
    /\ f_pc[t] = "activations"
    /\ baseIn' = [baseIn EXCEPT ![t] = feature_extraction_model]
    /\ f_pc' = [f_pc EXCEPT ![t] = "output"]
    /\ UNCHANGED <<nthreads, feature_extraction_model, mobilenet_activations, loads,
                   sawNone, calls, myLoad, usedModel, usedActs, graphSet, baseOut>>
    /\ UNCHANGED <<bvars, gvars, pvars, tvars>>

\* line 242, second argument of Model(...): the global is read again for
\* .layers[-3].output; another thread may have assigned it in between
ReadModelOutput(t) ==
    /\ f_pc[t] = "output"
    /\ baseOut' = [baseOut EXCEPT ![t] = feature_extraction_model]
    /\ f_pc' = [f_pc EXCEPT ![t] = "assign"]
    /\ UNCHANGED <<nthreads, feature_extraction_model, mobilenet_activations, loads,
                   sawNone, calls, myLoad, usedModel, usedActs, graphSet, baseIn>>
    /\ UNCHANGED <<bvars, gvars, pvars, tvars>>

\* lines 242-243: the truncated model, built from the input and the output
\* read before, is assigned to the global mobilenet_activations
LoadActivations(t) ==
    /\ f_pc[t] = "assign"
    /\ mobilenet_activations' = <<myLoad[t], baseIn[t], baseOut[t]>>
    /\ f_pc' = [f_pc EXCEPT ![t] = "resize"]
    /\ UNCHANGED <<nthreads, feature_extraction_model, loads, sawNone, calls, myLoad,
                   usedModel, usedActs, graphSet, baseIn, baseOut>>
    /\ UNCHANGED <<bvars, gvars, pvars, tvars>>

\* line 242 when the input and the output were read from two different
\* MobileNet instances: the output does not derive from the input, and the
\* Model constructor may refuse the pair and raise instead of returning
LoadActivationsRaise(t) ==
    /\ f_pc[t] = "assign"
    /\ baseIn[t] # baseOut[t]
    /\ f_pc' = [f_pc EXCEPT ![t] = "raised"]
    /\ UNCHANGED <<nthreads, feature_extraction_model, mobilenet_activations, loads,
                   sawNone, calls, myLoad, usedModel, usedActs, graphSet, baseIn, baseOut>>
    /\ UNCHANGED <<bvars, gvars, pvars, tvars>>

\* lines 211-221: resize, preprocess, enter feature_extraction_model.graph:
\* the global is read; a model whose graph is not set yet has no such
\* attribute and the call raises
EnterGraph(t) ==
    /\ f_pc[t] = "resize"
    /\ IF feature_extraction_model \in graphSet
       THEN /\ usedModel' = [usedModel EXCEPT ![t] = feature_extraction_model]
            /\ f_pc' = [f_pc EXCEPT ![t] = "predict"]
       ELSE /\ f_pc' = [f_pc EXCEPT ![t] = "raised"]
            /\ UNCHANGED usedModel
    /\ UNCHANGED <<nthreads, feature_extraction_model, mobilenet_activations, loads,
                   sawNone, calls, myLoad, usedActs, graphSet, baseIn, baseOut>>
    /\ UNCHANGED <<bvars, gvars, pvars, tvars>>

\* lines 222-225 and 245-248: predict with the global mobilenet_activations
\* and return; None has no predict, the call raises
Predict(t) ==
    /\ f_pc[t] = "predict"
    /\ IF mobilenet_activations = NoModel
       THEN /\ f_pc' = [f_pc EXCEPT ![t] = "raised"]
            /\ UNCHANGED <<usedActs, calls>>
       ELSE /\ usedActs' = [usedActs EXCEPT ![t] = mobilenet_activations]
            /\ calls' = [calls EXCEPT ![t] = @ + 1]
            /\ f_pc' = [f_pc EXCEPT ![t] = "idle"]
    /\ UNCHANGED <<nthreads, feature_extraction_model, mobilenet_activations, loads,
                   sawNone, myLoad, usedModel, graphSet, baseIn, baseOut>>
    /\ UNCHANGED <<bvars, gvars, pvars, tvars>>

NextFeat ==
    \E t \in Threads :
        \/ TestLoaded(t)
        \/ LoadModel(t)
        \/ SetGraph(t)
        \/ ReadModelInput(t)
        \/ ReadModelOutput(t)
        \/ LoadActivations(t)
        \/ LoadActivationsRaise(t)
        \/ EnterGraph(t)
        \/ Predict(t)

SpecFeat == FeatInit /\ [][NextFeat]_vars

\* ----------------------------------------------------- claims C7, C10
\* C7: with a single calling thread _load_mobilenet runs at most once, during
\* the first call; the two globals then hold the instances of that run for
\* good, every call uses them, and no call raises.
C7_LoadedOnce ==
    nthreads = 1 =>
        /\ loads <= 1
        /\ feature_extraction_model \in {None, 1}
        /\ mobilenet_activations \in {NoModel, <<1, 1, 1>>}
        /\ f_pc[1] \in {"load", "graph", "activations", "output", "assign"} => calls[1] = 0
        /\ graphSet \in {{}, {1}}
        /\ f_pc[1] # "raised"
        /\ f_pc[1] = "predict" => usedModel[1] = 1
        /\ calls[1] >= 1 =>
             /\ loads = 1
             /\ feature_extraction_model = 1
             /\ mobilenet_activations = <<1, 1, 1>>
             /\ usedModel[1] = 1
             /\ usedActs[1] = <<1, 1, 1>>

\* the single thread is inside its second call, past the test of line 208
C7_Witness ==
    /\ nthreads = 1
    /\ calls[1] = 1
    /\ f_pc[1] = "predict"
    /\ loads = 1

\* C10: nothing guards the load: every test that found None is followed by
\* a run of _load_mobilenet whatever the other threads have done since, and
\* a thread about to load can always go on.
C10_LoadUnguarded ==
    /\ loads + Cardinality({t \in Threads : f_pc[t] = "load"}) = sawNone
    /\ \A t \in Threads : f_pc[t] = "load" => ENABLED LoadModel(t)

\* two threads both found None, _load_mobilenet ran twice, and the global
\* model was assigned again after a thread had entered the graph of the first
C10_Witness ==
    /\ nthreads = 2
    /\ loads = 2
    /\ sawNone = 2
    /\ \E t \in Threads :
         /\ f_pc[t] = "predict"
         /\ calls[t] = 0
         /\ usedModel[t] = 1
         /\ feature_extraction_model = 2

\* ------------------------------------------------- postprocess_output
\* pixel values are whole numbers here: y and X_lab hold -1, 0 or 1
PostInit ==
    /\ \E n \in 0..MaxPredictions, ya \in 0..2, xa \in 0..2 :
         /\ y = [k \in 1..n |-> ((k + ya) % 3) - 1]
         /\ X_lab_arg = [k \in 1..n |-> ((k + xa) % 3) - 1]
    /\ y0 = y
    /\ X0 = X_lab_arg
    /\ X_lab = <<>>
    /\ resultsDir \in BOOLEAN
    /\ pngs = <<>>
    /\ p_i = 0
    /\ p_pc = "start"
    /\ BuildRest
    /\ GenRest
    /\ FeatRest
    /\ TestRest

\* lab2rgb of the image made of luminance plane l and chrominance planes ab
Lab2Rgb(l, ab) == <<"rgb", l, ab>>

\* lines 421-426: make results/, scale y in place (y *= 127.) and bind the
\* local X_lab to a new array (X_lab + 1) * 50.
PostprocessScale ==
    /\ p_pc = "start"
    /\ resultsDir' = TRUE
    /\ y' = [k \in 1..Len(y) |-> y[k] * 127]
    /\ X_lab' = [k \in 1..Len(X_lab_arg) |-> (X_lab_arg[k] + 1) * 50]
    /\ p_i' = 0
    /\ p_pc' = "loop"
    /\ UNCHANGED <<y0, X_lab_arg, X0, pngs>>
    /\ UNCHANGED <<bvars, gvars, fvars, tvars>>

\* lines 428-435: one iteration: save img_(i+1).png, then the progress test
\* i % (len(y) // 20), which divides by zero when len(y) < 20
PostprocessIteration ==
    /\ p_pc = "loop"
    /\ p_i < Len(y)
    /\ pngs' = [k \in (DOMAIN pngs) \cup {p_i + 1} |->
                  IF k = p_i + 1 THEN Lab2Rgb(X_lab[p_i + 1], y[p_i + 1]) ELSE pngs[k]]
    /\ IF Len(y) \div PROGRESS_STEPS = 0
       THEN /\ p_pc' = "raised"              \* ZeroDivisionError
            /\ UNCHANGED p_i
       ELSE /\ p_i' = p_i + 1
            /\ UNCHANGED p_pc
    /\ UNCHANGED <<y, y0, X_lab_arg, X0, X_lab, resultsDir>>
    /\ UNCHANGED <<bvars, gvars, fvars, tvars>>

\* the loop is over, the function returns
PostprocessReturn ==
    /\ p_pc = "loop"
    /\ p_i = Len(y)
    /\ p_pc' = "done"
    /\ UNCHANGED <<y, y0, X_lab_arg, X0, X_lab, resultsDir, pngs, p_i>>
    /\ UNCHANGED <<bvars, gvars, fvars, tvars>>

NextPost ==
    \/ PostprocessScale
    \/ PostprocessIteration
    \/ PostprocessReturn

SpecPost == PostInit /\ [][NextPost]_vars

\* ------------------------------------------------------ claims C8, C9
\* C8: postprocess_output leaves the caller's arrays y and X_lab as they were.
C8_InputsUnchanged ==
    /\ y = y0
    /\ X_lab_arg = X0

\* C9: for n >= 1 predictions the call returns, having written exactly the
\* files img_1.png .. img_n.png, the k-th holding the k-th image.
C9_WritesEveryImage ==
    (p_pc \in {"done", "raised"} /\ Len(y) >= 1) =>
        /\ p_pc = "done"
        /\ DOMAIN pngs = 1..Len(y)
        /\ \A k \in 1..Len(y) : pngs[k] = Lab2Rgb((X0[k] + 1) * 50, y0[k] * 127)
====
